---- MODULE Spec2Model ----
(***************************************************************************)
(* Model of backend_core/rag_engine.py: the in-memory corpus (_index,      *)
(* _chunks, _metadata), the chunker _chunk_text, add_document_from_text /  *)
(* add_document_from_file and query_corpus, run by several threads at      *)
(* statement granularity.                                                  *)
(* Also modelled: memory_handler.py (the session histories), the          *)
(* chat_stream generator of app_server.py that records a turn, and         *)
(* model_loader.py (load_models and the getters of the four singletons).   *)
(*                                                                         *)
(* A text is a sequence of characters; CR, LF, SP and TAB stand for        *)
(* "\r", "\n", " " and "\t".  An embedding is a sequence of integers.      *)
(***************************************************************************)
EXTENDS Integers, Sequences, FiniteSets, TLC

\* ---------------------------------------------------------------- bounds
\* the largest top_k a query asks for
MaxTopK == 3
\* the longest text handed to the chunker in ChunkSpec
MaxTextLen == 3
\* the largest max_chars / overlap handed to the chunker in ChunkSpec
MaxParam == 3
\* how many windows the chunker loop is followed for in ChunkSpec
MaxWindows == 4
\* how many pieces of text the streamer yields in one chat_stream request
MaxTokens == 2
\* how many messages the caller of memory_handler stores in MemApiSpec
MaxMessages == 2

\* ------------------------------------------------------ program constants
\* _chunk_text(text, max_chars=800, overlap=200)
DefaultMaxChars == 800
DefaultOverlap == 200

\* ------------------------------------------------------------ characters
CR == "CR"
LF == "LF"
SP == "SP"
TAB == "TAB"
\* the characters str.strip() removes
Whitespace == {CR, LF, SP, TAB}

Min2(a, b) == IF a < b THEN a ELSE b
Max2(a, b) == IF a > b THEN a ELSE b

\* n copies of character c
Rep(c, n) == [i \in 1..n |-> c]

\* text.replace("\r\n", "\n"): every CR directly followed by LF is dropped
ReplaceCRLF(text) ==
    LET n == Len(text)
        pairs == [i \in 1..n |-> <<text[i], IF i < n THEN text[i + 1] ELSE "">>]
        kept == SelectSeq(pairs, LAMBDA p : ~(p[1] = CR /\ p[2] = LF))
    IN  [i \in 1..Len(kept) |-> kept[i][1]]

\* .replace("\r", "\n") on the result
ReplaceCR(text) == [i \in 1..Len(text) |-> IF text[i] = CR THEN LF ELSE text[i]]

NormalizeNewlines(text) == ReplaceCR(ReplaceCRLF(text))

\* str.strip(): leading and trailing whitespace removed
Strip(s) ==
    IF \A i \in 1..Len(s) : s[i] \in Whitespace THEN <<>>
    ELSE LET first == CHOOSE i \in 1..Len(s) :
                          s[i] \notin Whitespace /\ \A j \in 1..(i - 1) : s[j] \in Whitespace
             last == CHOOSE i \in 1..Len(s) :
                          s[i] \notin Whitespace /\ \A j \in (i + 1)..Len(s) : s[j] \in Whitespace
         IN  SubSeq(s, first, last)

\* text[start:end]
Slice(text, start, end) == SubSeq(text, start + 1, end)

\* --------------------------------------------------------------- chunker
\* The loop state of _chunk_text: start, the chunks so far, the windows
\* [start, end) taken so far, and whether the loop has been left.
ChunkLoopInit == [start |-> 0, chunks |-> <<>>, windows |-> <<>>, done |-> FALSE]

\* ChunkIter with every window's chunk kept, empty or not
ChunkIter_KeepsEmpty(text, max_chars, overlap, st) ==
    LET length == Len(text)
        end == Min2(st.start + max_chars, length)
        chunk == Strip(Slice(text, st.start, end))
        chunks2 == Append(st.chunks, chunk)
        windows2 == Append(st.windows, <<st.start, end>>)
    IN  IF ~(st.start < length) THEN [st EXCEPT !.done = TRUE]
        ELSE IF end = length
             THEN [st EXCEPT !.chunks = chunks2, !.windows = windows2, !.done = TRUE]
             ELSE [st EXCEPT !.chunks = chunks2, !.windows = windows2,
                             !.start = Max2(0, end - overlap)]

\* ChunkIter with the next window begun where the last one ended
ChunkIter_NoOverlap(text, max_chars, overlap, st) ==
    LET length == Len(text)
        end == Min2(st.start + max_chars, length)
        chunk == Strip(Slice(text, st.start, end))
        chunks2 == IF chunk # <<>> THEN Append(st.chunks, chunk) ELSE st.chunks
        windows2 == Append(st.windows, <<st.start, end>>)
    IN  IF ~(st.start < length) THEN [st EXCEPT !.done = TRUE]
        ELSE IF end = length
             THEN [st EXCEPT !.chunks = chunks2, !.windows = windows2, !.done = TRUE]
             ELSE [st EXCEPT !.chunks = chunks2, !.windows = windows2, !.start = end]

\* ChunkIter with the next window begun one character past the end of the
\* last one
ChunkIter_SkipsOne(text, max_chars, overlap, st) ==
    LET length == Len(text)
        end == Min2(st.start + max_chars, length)
        chunk == Strip(Slice(text, st.start, end))
        chunks2 == IF chunk # <<>> THEN Append(st.chunks, chunk) ELSE st.chunks
        windows2 == Append(st.windows, <<st.start, end>>)
    IN  IF ~(st.start < length) THEN [st EXCEPT !.done = TRUE]
        ELSE IF end = length
             THEN [st EXCEPT !.chunks = chunks2, !.windows = windows2, !.done = TRUE]
             ELSE [st EXCEPT !.chunks = chunks2, !.windows = windows2, !.start = end + 1]

\* One evaluation of the while condition and, when it holds, one loop body.
ChunkIter(text, max_chars, overlap, st) ==
    LET length == Len(text)
        end == Min2(st.start + max_chars, length)
        chunk == Strip(Slice(text, st.start, end))
        chunks2 == IF chunk # <<>> THEN Append(st.chunks, chunk) ELSE st.chunks
        windows2 == Append(st.windows, <<st.start, end>>)
    IN  IF ~(st.start < length) THEN [st EXCEPT !.done = TRUE]
        ELSE IF end = length
             THEN [st EXCEPT !.chunks = chunks2, !.windows = windows2, !.done = TRUE]
             ELSE [st EXCEPT !.chunks = chunks2, !.windows = windows2,
                             !.start = Max2(0, end - overlap)]

RECURSIVE ChunkRun(_, _, _, _)
ChunkRun(text, max_chars, overlap, st) ==
    IF st.done THEN st
    ELSE ChunkRun(text, max_chars, overlap, ChunkIter(text, max_chars, overlap, st))

\* _chunk_text(text, max_chars, overlap) where the loop ends
_chunk_text(text, max_chars, overlap) ==
    ChunkRun(NormalizeNewlines(text), max_chars, overlap, ChunkLoopInit).chunks

\* ------------------------------------------------- embedding provider
\* The output dimensions the embedding model may have.
Dims == {1, 2}

CharCode(c) == IF c = "A" THEN 1 ELSE 0

\* One row of embed_texts: the provider is an external model; it is stood
\* for by a fixed deterministic map from a text to an integer vector of the
\* provider's dimension.
EmbedVec(text, dim) ==
    [j \in 1..dim |-> IF j = 1 THEN Len(text) % 3
                      ELSE IF Len(text) = 0 THEN 0 ELSE CharCode(text[1])]

\* embed_texts(texts): one row per text, in order, shape (len(texts), dim)
embed_texts(texts, dim) == [i \in 1..Len(texts) |-> EmbedVec(texts[i], dim)]

\* ---------------------------------------------------------- vector index
\* _index = None
NoIndex == [exists |-> FALSE, d |-> 0, vecs |-> <<>>]

\* faiss.IndexFlatL2(dim)
IndexFlatL2(dim) == [exists |-> TRUE, d |-> dim, vecs |-> <<>>]

\* index.ntotal
NTotal(index) == Len(index.vecs)

RECURSIVE SumSq(_, _, _)
SumSq(a, b, j) ==
    IF j = 0 THEN 0 ELSE (a[j] - b[j]) * (a[j] - b[j]) + SumSq(a, b, j - 1)

\* squared Euclidean distance
L2Sqr(a, b) == SumSq(a, b, Len(a))

\* IndexAdd without the dimension check
IndexAdd_NoCheck(index, embeddings, dim) ==
    [raised |-> FALSE, index |-> [index EXCEPT !.vecs = index.vecs \o embeddings]]

\* _index.add(embeddings): the rows' dimension must be the index's, or the
\* call raises and the index is as before.
IndexAdd(index, embeddings, dim) ==
    IF dim # index.d THEN [raised |-> TRUE, index |-> index]
    ELSE [raised |-> FALSE, index |-> [index EXCEPT !.vecs = index.vecs \o embeddings]]

\* IndexSearch giving the first k stored vectors, in the order they were
\* added
IndexSearch_InsertionOrder(index, query_vec, k) ==
    LET n == NTotal(index)
    IN  [p \in 1..k |-> IF p <= n THEN [id |-> p - 1, dist |-> L2Sqr(index.vecs[p], query_vec)]
                        ELSE [id |-> -1, dist |-> 2147483647]]

\* _index.search(query_vec, k) for one query row: the k nearest stored
\* vectors, nearest first, equal distances by ascending id; ids are 0-based
\* and the places past ntotal hold id -1 and the largest distance.
IndexSearch(index, query_vec, k) ==
    LET n == NTotal(index)
        dist(i) == L2Sqr(index.vecs[i], query_vec)
        before(i, j) == dist(i) < dist(j) \/ (dist(i) = dist(j) /\ i < j)
        rank(i) == Cardinality({j \in 1..n : before(j, i)}) + 1
        at(p) == CHOOSE i \in 1..n : rank(i) = p
    IN  [p \in 1..k |-> IF p <= n THEN [id |-> at(p) - 1, dist |-> dist(at(p))]
                        ELSE [id |-> -1, dist |-> 2147483647]]

\* ------------------------------------------------------------------ inputs
Docs == { <<>>,
          <<SP, LF>>,
          <<"a", CR, LF, "b">>,
          Rep("A", 1000) }

Sources == {"s1", "s2"}

Queries == { <<"A">>, <<"a">> }

TopKs == 1..MaxTopK

\* what load_text_from_file does with the file
LoadOutcomes == {"ok", "ocr_failed", "raise"}

\* One thread per request: two uploads and one search.
Writers == {"w1", "w2"}
Readers == {"r1"}
Threads == Writers \cup Readers

\* The requests are interchangeable; they begin in this order.
Earlier(t) == IF t = "w2" THEN {"w1"} ELSE {}

\* _chunk_text(text) and text.strip() of each document, computed once
DefaultChunks == [d \in Docs |-> _chunk_text(d, DefaultMaxChars, DefaultOverlap)]
StripsToEmpty == [d \in Docs |-> Strip(d) = <<>>]

\* ------------------------------------------------------------------- state
VARIABLES
    _index,     \* the FAISS index, or NoIndex
    _chunks,    \* list of chunk texts
    _metadata,  \* list of {"source": ...}, one per chunk
    origin,     \* history: for each entry of _chunks, the source label of the call that appended it
    embedDim,   \* the dimension of the loaded embedding model's output
    pc,         \* each thread's position
    w,          \* each writer's locals in add_document_from_text
    q,          \* each reader's locals in query_corpus
    ck,         \* the chunker run followed in ChunkSpec
    _conversations,   \* memory_handler: session id -> list of messages
    chat,       \* each chat_stream request's locals and position
    api,        \* the caller of the memory_handler functions in MemApiSpec
    _llm, _llm_tokenizer, _embed_model, _embed_tokenizer,  \* model_loader's singletons
    _load_lock, \* the thread holding _load_lock, or NoThread
    ld,         \* each thread's position in load_models / a getter
    loads       \* history: how many times each singleton has been assigned

memVars == <<_conversations, chat, api>>

loaderVars == <<_llm, _llm_tokenizer, _embed_model, _embed_tokenizer, _load_lock, ld, loads>>

vars == <<_index, _chunks, _metadata, origin, embedDim, pc, w, q, ck, memVars, loaderVars>>

corpusVars == <<_index, _chunks, _metadata, origin, embedDim, pc, w, q>>

\* corpus_size()
corpus_size == Len(_chunks)

Snapshot == [index |-> _index, chunks |-> _chunks, metadata |-> _metadata]

WLocals0 ==
    [chunks |-> <<>>, source |-> "", embeddings |-> <<>>, dim |-> 0, i |-> 0,
     ret |-> 0, err |-> "", batches |-> <<>>, pre |-> [index |-> NoIndex, chunks |-> <<>>, metadata |-> <<>>]]

QLocals0 ==
    [query_vec |-> <<>>, top_k |-> 0, hits |-> <<>>, j |-> 0, results |-> <<>>,
     err |-> "", batches |-> <<>>]

CkIdle == [pc |-> "idle", text |-> <<>>, max_chars |-> 0, overlap |-> 0, st |-> ChunkLoopInit]

\* --------------------------------------------------------- session memory
\* the session ids a request carries; "" is the empty id
SessionIds == {"", "default", "s1"}

Roles == {"user", "assistant"}

\* One thread per chat_stream request.
ChatThreads == {"c1", "c2"}

\* The chat requests are interchangeable; they begin in this order.
ChatEarlier(t) == IF t = "c2" THEN {"c1"} ELSE {}

\* req.session_id and req.message of a chat_stream request
ChatSessionIds == {"", "s1"}
ChatMessages == { <<SP>>, <<"h">> }

\* the pieces of text the streamer yields
Tokens == { <<"A">>, <<SP>> }

\* the message texts the caller of memory_handler stores
Contents == { <<"h">> }

\* _conversations = {}
NoConversations == [k \in {} |-> <<>>]

\* d[k] = v on a dict
Put(d, k, v) == [x \in DOMAIN d \cup {k} |-> IF x = k THEN v ELSE d[x]]

\* d.get(k, [])
GetOrEmpty(d, k) == IF k \in DOMAIN d THEN d[k] ELSE <<>>

\* add_message(session_id, role, content): the dict after the call.  turn
\* is history: the request that stored the message.
add_message(conv, session_id, role, content, turn) ==
    LET sid == IF session_id = "" THEN "default" ELSE session_id
    IN  Put(conv, sid,
            Append(GetOrEmpty(conv, sid), [role |-> role, content |-> content, turn |-> turn]))

\* get_history giving the stored list itself
get_history_ReturnsStoredList(conv, session_id) ==
    [held |-> TRUE, shared |-> session_id \in DOMAIN conv, key |-> session_id,
     items |-> GetOrEmpty(conv, session_id)]

\* get_history(session_id): a new list object (shared is FALSE: it is not
\* the list the dict holds for key) with the stored messages
get_history(conv, session_id) ==
    [held |-> TRUE, shared |-> FALSE, key |-> session_id,
     items |-> GetOrEmpty(conv, session_id)]

\* clear_history(session_id): _conversations.pop(session_id, None)
clear_history(conv, session_id) == [k \in DOMAIN conv \ {session_id} |-> conv[k]]

\* no list held
NoList == [held |-> FALSE, shared |-> FALSE, key |-> "", items |-> <<>>]

ChatLocals0 ==
    [pc |-> "idle", session_id |-> "", user_message |-> <<>>, collected |-> <<>>,
     full_answer |-> <<>>]

\* wrote is history: the session ids add_message was called with
ApiIdle == [op |-> "none", got |-> NoList, wrote |-> {}]

MemInit ==
    /\ _conversations = NoConversations
    /\ chat = [t \in ChatThreads |-> ChatLocals0]
    /\ api = ApiIdle

\* ----------------------------------------------------------- model loader
\* One thread per call of load_models or of a getter.
LoaderThreads == {"l1", "l2", "l3"}

\* the functions of model_loader a thread calls
LoaderEntries ==
    {"load_models", "get_llm", "get_llm_tokenizer", "get_embed_model", "get_embed_tokenizer"}

\* the four module globals
Singletons == {"_llm", "_llm_tokenizer", "_embed_model", "_embed_tokenizer"}

\* None
NoObject == 0

\* _load_lock is free
NoThread == "nobody"

LdLocals0 == [pc |-> "idle", entry |-> "", ret |-> NoObject]

LoaderInit ==
    /\ _llm = NoObject
    /\ _llm_tokenizer = NoObject
    /\ _embed_model = NoObject
    /\ _embed_tokenizer = NoObject
    /\ _load_lock = NoThread
    /\ ld = [t \in LoaderThreads |-> LdLocals0]
    /\ loads = [g \in Singletons |-> 0]

Init ==
    /\ _index = NoIndex
    /\ _chunks = <<>>
    /\ _metadata = <<>>
    /\ origin = <<>>
    /\ embedDim = 2
    /\ pc = [t \in Threads |-> "idle"]
    /\ w = [t \in Writers |-> WLocals0]
    /\ q = [t \in Readers |-> QLocals0]
    /\ ck = CkIdle
    /\ MemInit
    /\ LoaderInit

\* a thread is inside a call
Busy(t) == pc[t] \notin {"idle", "returned", "raised"}

\* ---------------------------------------------------------------- insert
\* load_text_from_file with the file's text given back when OCR fails
load_text_from_file_TextDespiteOcrFailure(outcome, text) ==
    [raised |-> outcome = "raise", text |-> text]

\* load_text_from_file(path): raises on an unreadable file, gives "" when
\* OCR fails, and the file's text otherwise.
load_text_from_file(outcome, text) ==
    [raised |-> outcome = "raise", text |-> IF outcome = "ok" THEN text ELSE <<>>]

\* PrepareInsert with the chunks handed to the provider before the text is
\* looked at
PrepareInsert_EmbedBeforeEmptyCheck(text, source_name, embedOk, dim) ==
    LET chunks == DefaultChunks[text]
    IN  IF ~embedOk
        THEN [pc |-> "raised",
              loc |-> [WLocals0 EXCEPT !.source = source_name, !.chunks = chunks,
                                       !.err = "EmbedError", !.batches = <<chunks>>]]
        ELSE IF StripsToEmpty[text] \/ chunks = <<>>
        THEN [pc |-> "returned", loc |-> [WLocals0 EXCEPT !.batches = <<chunks>>]]
        ELSE [pc |-> "ensure",
              loc |-> [WLocals0 EXCEPT !.source = source_name, !.chunks = chunks,
                                       !.embeddings = embed_texts(chunks, dim),
                                       !.dim = dim, !.batches = <<chunks>>]]

\* PrepareInsert with the provider called once for each chunk
PrepareInsert_EmbedPerChunk(text, source_name, embedOk, dim) ==
    IF StripsToEmpty[text] THEN [pc |-> "returned", loc |-> WLocals0]
    ELSE LET chunks == DefaultChunks[text]
             each == [i \in 1..Len(chunks) |-> <<chunks[i]>>]
         IN  IF chunks = <<>>
             THEN [pc |-> "returned", loc |-> WLocals0]
             ELSE IF ~embedOk
             THEN [pc |-> "raised",
                   loc |-> [WLocals0 EXCEPT !.source = source_name, !.chunks = chunks,
                                            !.err = "EmbedError", !.batches = <<each[1]>>]]
             ELSE [pc |-> "ensure",
                   loc |-> [WLocals0 EXCEPT !.source = source_name, !.chunks = chunks,
                                            !.embeddings = embed_texts(chunks, dim),
                                            !.dim = dim, !.batches = each]]

\* add_document_from_text up to and including the embed_texts call: where
\* the call goes next and its locals.  Nothing shared is read or written.
PrepareInsert(text, source_name, embedOk, dim) ==
    IF StripsToEmpty[text] THEN [pc |-> "returned", loc |-> WLocals0]
    ELSE LET chunks == DefaultChunks[text]
         IN  IF chunks = <<>>
             THEN [pc |-> "returned", loc |-> WLocals0]
             ELSE IF ~embedOk
             THEN [pc |-> "raised",
                   loc |-> [WLocals0 EXCEPT !.source = source_name, !.chunks = chunks,
                                            !.err = "EmbedError", !.batches = <<chunks>>]]
             ELSE [pc |-> "ensure",
                   loc |-> [WLocals0 EXCEPT !.source = source_name, !.chunks = chunks,
                                            !.embeddings = embed_texts(chunks, dim),
                                            !.dim = dim, !.batches = <<chunks>>]]

\* WBeginWith with the chunks stored before they are embedded
WBeginWith_StoreBeforeEmbed(t, entry, outcome, text, source_name, embedOk) ==
    LET loaded == IF entry = "file" THEN load_text_from_file(outcome, text)
                  ELSE [raised |-> FALSE, text |-> text]
        prep == IF loaded.raised
                THEN [pc |-> "returned", loc |-> [WLocals0 EXCEPT !.err = "LoadFailed"]]
                ELSE PrepareInsert(loaded.text, source_name, embedOk, embedDim)
    IN  /\ pc' = [pc EXCEPT ![t] = prep.pc]
        /\ w' = [w EXCEPT ![t] = [prep.loc EXCEPT !.pre = Snapshot]]
        /\ _chunks' = _chunks \o prep.loc.chunks
        /\ UNCHANGED <<_index, _metadata, origin, embedDim, q, ck, memVars, loaderVars>>

\* add_document_from_file / add_document_from_text, entered with these inputs;
\* an exception of load_text_from_file is caught and 0 returned (err keeps
\* what happened)
WBeginWith(t, entry, outcome, text, source_name, embedOk) ==
    LET loaded == IF entry = "file" THEN load_text_from_file(outcome, text)
                  ELSE [raised |-> FALSE, text |-> text]
        prep == IF loaded.raised
                THEN [pc |-> "returned", loc |-> [WLocals0 EXCEPT !.err = "LoadFailed"]]
                ELSE PrepareInsert(loaded.text, source_name, embedOk, embedDim)
    IN  /\ pc' = [pc EXCEPT ![t] = prep.pc]
        /\ w' = [w EXCEPT ![t] = [prep.loc EXCEPT !.pre = Snapshot]]
        /\ UNCHANGED <<_index, _chunks, _metadata, origin, embedDim, q, ck, memVars, loaderVars>>

WBegin(t) ==
    /\ pc[t] = "idle"
    /\ \A u \in Earlier(t) : pc[u] # "idle"
    /\ \E entry \in {"text", "file"}, outcome \in LoadOutcomes, text \in Docs,
          source_name \in Sources, embedOk \in BOOLEAN :
          WBeginWith(t, entry, outcome, text, source_name, embedOk)

\* _ensure_index: if _index is None
WEnsureCheck(t) ==
    /\ pc[t] = "ensure"
    /\ pc' = [pc EXCEPT ![t] = IF _index.exists THEN "add" ELSE "create"]
    /\ UNCHANGED <<_index, _chunks, _metadata, origin, embedDim, w, q, ck, memVars, loaderVars>>

\* _ensure_index: _index = faiss.IndexFlatL2(dim)
WEnsureCreate(t) ==
    /\ pc[t] = "create"
    /\ _index' = IndexFlatL2(w[t].dim)
    /\ pc' = [pc EXCEPT ![t] = "add"]
    /\ UNCHANGED <<_chunks, _metadata, origin, embedDim, w, q, ck, memVars, loaderVars>>

\* _index.add(embeddings)
WIndexAdd(t) ==
    /\ pc[t] = "add"
    /\ LET r == IndexAdd(_index, w[t].embeddings, w[t].dim)
       IN  /\ _index' = r.index
           /\ pc' = [pc EXCEPT ![t] = IF r.raised THEN "raised" ELSE "append_chunk"]
           /\ w' = [w EXCEPT ![t].err = IF r.raised THEN "DimensionMismatch" ELSE "",
                             ![t].i = 1]
    /\ UNCHANGED <<_chunks, _metadata, origin, embedDim, q, ck, memVars, loaderVars>>

\* WAppendChunk with the chunk put in front of the list
WAppendChunk_Prepend(t) ==
    /\ pc[t] = "append_chunk"
    /\ _chunks' = <<w[t].chunks[w[t].i]>> \o _chunks
    /\ origin' = <<w[t].source>> \o origin
    /\ pc' = [pc EXCEPT ![t] = "append_meta"]
    /\ UNCHANGED <<_index, _metadata, embedDim, w, q, ck, memVars, loaderVars>>

\* for chunk in chunks: _chunks.append(chunk)
WAppendChunk(t) ==
    /\ pc[t] = "append_chunk"
    /\ _chunks' = Append(_chunks, w[t].chunks[w[t].i])
    /\ origin' = Append(origin, w[t].source)
    /\ pc' = [pc EXCEPT ![t] = "append_meta"]
    /\ UNCHANGED <<_index, _metadata, embedDim, w, q, ck, memVars, loaderVars>>

\* WAppendMeta with the metadata appended once per document
WAppendMeta_OncePerDocument(t) ==
    /\ pc[t] = "append_meta"
    /\ _metadata' = IF w[t].i = 1 THEN Append(_metadata, [source |-> w[t].source]) ELSE _metadata
    /\ IF w[t].i < Len(w[t].chunks)
       THEN /\ pc' = [pc EXCEPT ![t] = "append_chunk"]
            /\ w' = [w EXCEPT ![t].i = @ + 1]
       ELSE /\ pc' = [pc EXCEPT ![t] = "returned"]
            /\ w' = [w EXCEPT ![t].ret = Len(w[t].embeddings)]
    /\ UNCHANGED <<_index, _chunks, origin, embedDim, q, ck, memVars, loaderVars>>

\* WAppendMeta returning the size of the corpus instead of n_chunks
WAppendMeta_ReturnsCorpusSize(t) ==
    /\ pc[t] = "append_meta"
    /\ _metadata' = Append(_metadata, [source |-> w[t].source])
    /\ IF w[t].i < Len(w[t].chunks)
       THEN /\ pc' = [pc EXCEPT ![t] = "append_chunk"]
            /\ w' = [w EXCEPT ![t].i = @ + 1]
       ELSE /\ pc' = [pc EXCEPT ![t] = "returned"]
            /\ w' = [w EXCEPT ![t].ret = Len(_chunks)]
    /\ UNCHANGED <<_index, _chunks, origin, embedDim, q, ck, memVars, loaderVars>>

\* _metadata.append({"source": source_name}); after the last chunk,
\* return n_chunks
WAppendMeta(t) ==
    /\ pc[t] = "append_meta"
    /\ _metadata' = Append(_metadata, [source |-> w[t].source])
    /\ IF w[t].i < Len(w[t].chunks)
       THEN /\ pc' = [pc EXCEPT ![t] = "append_chunk"]
            /\ w' = [w EXCEPT ![t].i = @ + 1]
       ELSE /\ pc' = [pc EXCEPT ![t] = "returned"]
            /\ w' = [w EXCEPT ![t].ret = Len(w[t].embeddings)]
    /\ UNCHANGED <<_index, _chunks, origin, embedDim, q, ck, memVars, loaderVars>>

WStep(t) ==
    \/ WBegin(t)
    \/ WEnsureCheck(t)
    \/ WEnsureCreate(t)
    \/ WIndexAdd(t)
    \/ WAppendChunk(t)
    \/ WAppendMeta(t)

\* ----------------------------------------------------------------- query
\* QBeginWith with the query embedded before the corpus is looked at
QBeginWith_EmbedFirst(t, query, top_k, embedOk) ==
    /\ IF ~embedOk
       THEN /\ pc' = [pc EXCEPT ![t] = "raised"]
            /\ q' = [q EXCEPT ![t] = [QLocals0 EXCEPT !.top_k = top_k, !.err = "EmbedError",
                                                       !.batches = << <<query>> >>]]
       ELSE IF ~_index.exists \/ corpus_size = 0
       THEN /\ pc' = [pc EXCEPT ![t] = "returned"]
            /\ q' = [q EXCEPT ![t] = [QLocals0 EXCEPT !.top_k = top_k,
                                                       !.batches = << <<query>> >>]]
       ELSE /\ pc' = [pc EXCEPT ![t] = "search"]
            /\ q' = [q EXCEPT ![t] = [QLocals0 EXCEPT !.top_k = top_k,
                                          !.query_vec = embed_texts(<<query>>, embedDim)[1],
                                          !.batches = << <<query>> >>]]
    /\ UNCHANGED <<_index, _chunks, _metadata, origin, embedDim, w, ck, memVars, loaderVars>>

\* query_corpus up to and including the embed_texts call
QBeginWith(t, query, top_k, embedOk) ==
    /\ IF ~_index.exists \/ corpus_size = 0
       THEN /\ pc' = [pc EXCEPT ![t] = "returned"]
            /\ q' = [q EXCEPT ![t] = [QLocals0 EXCEPT !.top_k = top_k]]
       ELSE IF ~embedOk
       THEN /\ pc' = [pc EXCEPT ![t] = "raised"]
            /\ q' = [q EXCEPT ![t] = [QLocals0 EXCEPT !.top_k = top_k, !.err = "EmbedError",
                                                       !.batches = << <<query>> >>]]
       ELSE /\ pc' = [pc EXCEPT ![t] = "search"]
            /\ q' = [q EXCEPT ![t] = [QLocals0 EXCEPT !.top_k = top_k,
                                          !.query_vec = embed_texts(<<query>>, embedDim)[1],
                                          !.batches = << <<query>> >>]]
    /\ UNCHANGED <<_index, _chunks, _metadata, origin, embedDim, w, ck, memVars, loaderVars>>

QBegin(t) ==
    /\ pc[t] = "idle"
    /\ \E query \in Queries, top_k \in TopKs, embedOk \in BOOLEAN :
          QBeginWith(t, query, top_k, embedOk)

\* QSearch asking for every stored chunk, top_k forgotten
QSearch_IgnoreTopK(t) ==
    /\ pc[t] = "search"
    /\ LET k == corpus_size
       IN  IF Len(q[t].query_vec) # _index.d \/ k < 1
           THEN /\ pc' = [pc EXCEPT ![t] = "raised"]
                /\ q' = [q EXCEPT ![t].err = "AssertionError"]
           ELSE /\ pc' = [pc EXCEPT ![t] = "loop"]
                /\ q' = [q EXCEPT ![t].hits = IndexSearch(_index, q[t].query_vec, k),
                                  ![t].j = 1]
    /\ UNCHANGED <<_index, _chunks, _metadata, origin, embedDim, w, ck, memVars, loaderVars>>

\* distances, indices = _index.search(query_vec, min(top_k, corpus_size()))
\* The index refuses a query row of another dimension and a k below 1.
QSearch(t) ==
    /\ pc[t] = "search"
    /\ LET k == Min2(q[t].top_k, corpus_size)
       IN  IF Len(q[t].query_vec) # _index.d \/ k < 1
           THEN /\ pc' = [pc EXCEPT ![t] = "raised"]
                /\ q' = [q EXCEPT ![t].err = "AssertionError"]
           ELSE /\ pc' = [pc EXCEPT ![t] = "loop"]
                /\ q' = [q EXCEPT ![t].hits = IndexSearch(_index, q[t].query_vec, k),
                                  ![t].j = 1]
    /\ UNCHANGED <<_index, _chunks, _metadata, origin, embedDim, w, ck, memVars, loaderVars>>

\* AppendResult with the new result put first
AppendResult_Prepend(results, hit, text, source) ==
    <<[text |-> text, score |-> hit.dist, source |-> source, pos |-> hit.id]>> \o results

\* The results list after one hit of the for loop has been handled, given
\* the rows read for it.
AppendResult(results, hit, text, source) ==
    Append(results, [text |-> text, score |-> hit.dist, source |-> source, pos |-> hit.id])

\* one pass of: for idx, dist in zip(indices, distances)
QLoop(t) ==
    /\ pc[t] = "loop"
    /\ LET hit == q[t].hits[q[t].j]
           idx == hit.id
           last == q[t].j = Len(q[t].hits)
       IN  IF idx < 0 \/ idx >= Len(_chunks)
           THEN /\ pc' = [pc EXCEPT ![t] = IF last THEN "returned" ELSE "loop"]
                /\ q' = [q EXCEPT ![t].j = @ + 1]
           ELSE IF idx >= Len(_metadata)
           THEN /\ pc' = [pc EXCEPT ![t] = "raised"]
                /\ q' = [q EXCEPT ![t].err = "IndexError"]
           ELSE /\ pc' = [pc EXCEPT ![t] = IF last THEN "returned" ELSE "loop"]
                /\ q' = [q EXCEPT ![t].j = @ + 1,
                                  ![t].results = AppendResult(@, hit, _chunks[idx + 1],
                                                              _metadata[idx + 1].source)]
    /\ UNCHANGED <<_index, _chunks, _metadata, origin, embedDim, w, ck, memVars, loaderVars>>

QStep(t) ==
    \/ QBegin(t)
    \/ QSearch(t)
    \/ QLoop(t)

\* -------------------------------------------------------- specifications
\* Threads run the calls concurrently, one statement at a time.
Next ==
    \/ \E t \in Writers : WStep(t)
    \/ \E t \in Readers : QStep(t)

Spec == Init /\ [][Next]_vars

\* no other thread is inside a call
Alone(t) == \A u \in Threads \ {t} : ~Busy(u)

\* The calls run one after another.
SeqNext ==
    \/ \E t \in Writers : Alone(t) /\ WStep(t)
    \/ \E t \in Readers : Alone(t) /\ QStep(t)

SeqSpec == Init /\ [][SeqNext]_vars

\* Between calls the embedding provider is replaced by one of another
\* output dimension.
ProviderChange ==
    /\ \A t \in Threads : ~Busy(t)
    /\ embedDim' \in Dims \ {embedDim}
    /\ UNCHANGED <<_index, _chunks, _metadata, origin, pc, w, q, ck, memVars, loaderVars>>

DimNext == SeqNext \/ ProviderChange

DimSpec == Init /\ [][DimNext]_vars

\* ------------------------------------------------- the chunker, stepwise
ChunkAlphabet == {"A", SP, CR, LF}

ChunkTexts == UNION { [1..n -> ChunkAlphabet] : n \in 0..MaxTextLen }

\* chunks = _chunk_text(text), as add_document_from_text enters it: the
\* default max_chars and overlap
ChunkCallDefault ==
    /\ ck.pc = "idle"
    /\ \E text \in Docs :
          ck' = [pc |-> "loop", text |-> NormalizeNewlines(text),
                 max_chars |-> DefaultMaxChars, overlap |-> DefaultOverlap,
                 st |-> ChunkLoopInit]
    /\ UNCHANGED <<corpusVars, memVars, loaderVars>>

\* _chunk_text(text, max_chars, overlap) is entered
ChunkCall ==
    /\ ck.pc = "idle"
    /\ \E text \in ChunkTexts, max_chars \in 1..MaxParam, overlap \in 0..MaxParam :
          ck' = [pc |-> "loop", text |-> NormalizeNewlines(text), max_chars |-> max_chars,
                 overlap |-> overlap, st |-> ChunkLoopInit]
    /\ UNCHANGED <<corpusVars, memVars, loaderVars>>

\* the while condition and one loop body
ChunkStep ==
    /\ ck.pc = "loop"
    /\ Len(ck.st.windows) < MaxWindows
    /\ LET st2 == ChunkIter(ck.text, ck.max_chars, ck.overlap, ck.st)
       IN  ck' = [ck EXCEPT !.st = st2, !.pc = IF st2.done THEN "done" ELSE "loop"]
    /\ UNCHANGED <<corpusVars, memVars, loaderVars>>

ChunkNext == ChunkCall \/ ChunkCallDefault \/ ChunkStep

ChunkSpec == Init /\ [][ChunkNext]_vars

\* ------------------------------------------------------------ chat_stream
\* "".join(collected)
RECURSIVE Join(_)
Join(pieces) == IF pieces = <<>> THEN <<>> ELSE Head(pieces) \o Join(Tail(pieces))

\* chat_stream(req) up to the StreamingResponse: an empty message is
\* answered 400; otherwise token_generator starts.  The prompt built from
\* the history and the corpus decides only which tokens the model yields,
\* and those are arbitrary here.
ChatBegin(t) ==
    /\ chat[t].pc = "idle"
    /\ \A u \in ChatEarlier(t) : chat[u].pc # "idle"
    /\ \E req_session \in ChatSessionIds, message \in ChatMessages :
          LET session_id == IF req_session = "" THEN "default" ELSE req_session
              user_message == Strip(message)
          IN  chat' = [chat EXCEPT ![t] =
                          [ChatLocals0 EXCEPT !.pc = IF user_message = <<>> THEN "rejected"
                                                     ELSE "streaming",
                                              !.session_id = session_id,
                                              !.user_message = user_message]]
    /\ UNCHANGED <<corpusVars, ck, _conversations, api, loaderVars>>

\* for new_text in streamer: collected.append(new_text); yield ...
ChatToken(t) ==
    /\ chat[t].pc = "streaming"
    /\ Len(chat[t].collected) < MaxTokens
    /\ \E new_text \in Tokens :
          chat' = [chat EXCEPT ![t].collected = Append(@, new_text)]
    /\ UNCHANGED <<corpusVars, ck, _conversations, api, loaderVars>>

\* the client goes away and the generator is closed at its yield
ChatClose(t) ==
    /\ chat[t].pc = "streaming"
    /\ chat[t].collected # <<>>
    /\ chat' = [chat EXCEPT ![t].pc = "closed"]
    /\ UNCHANGED <<corpusVars, ck, _conversations, api, loaderVars>>

\* the streamer is exhausted: full_answer = "".join(collected).strip();
\* if full_answer
ChatStreamEnd(t) ==
    /\ chat[t].pc = "streaming"
    /\ LET full_answer == Strip(Join(chat[t].collected))
       IN  chat' = [chat EXCEPT ![t].full_answer = full_answer,
                                ![t].pc = IF full_answer # <<>> THEN "add_user" ELSE "done"]
    /\ UNCHANGED <<corpusVars, ck, _conversations, api, loaderVars>>

\* add_message(session_id, "user", user_message)
ChatAddUser(t) ==
    /\ chat[t].pc = "add_user"
    /\ _conversations' = add_message(_conversations, chat[t].session_id, "user",
                                     chat[t].user_message, t)
    /\ chat' = [chat EXCEPT ![t].pc = "add_assistant"]
    /\ UNCHANGED <<corpusVars, ck, api, loaderVars>>

\* add_message(session_id, "assistant", full_answer)
ChatAddAssistant(t) ==
    /\ chat[t].pc = "add_assistant"
    /\ _conversations' = add_message(_conversations, chat[t].session_id, "assistant",
                                     chat[t].full_answer, t)
    /\ chat' = [chat EXCEPT ![t].pc = "done"]
    /\ UNCHANGED <<corpusVars, ck, api, loaderVars>>

ChatStep(t) ==
    \/ ChatBegin(t)
    \/ ChatToken(t)
    \/ ChatClose(t)
    \/ ChatStreamEnd(t)
    \/ ChatAddUser(t)
    \/ ChatAddAssistant(t)

\* The chat_stream requests run concurrently, each generator in a worker
\* thread.
ChatNext == \E t \in ChatThreads : ChatStep(t)

ChatSpec == Init /\ [][ChatNext]_vars

\* ------------------------------------------------------------ load_models
\* the value of a module global
Singleton(g) ==
    IF g = "_llm" THEN _llm
    ELSE IF g = "_llm_tokenizer" THEN _llm_tokenizer
    ELSE IF g = "_embed_model" THEN _embed_model
    ELSE _embed_tokenizer

\* the global a getter reads
GetterOf(entry) ==
    IF entry = "get_llm" THEN "_llm"
    ELSE IF entry = "get_llm_tokenizer" THEN "_llm_tokenizer"
    ELSE IF entry = "get_embed_model" THEN "_embed_model"
    ELSE "_embed_tokenizer"

\* the object a from_pretrained call makes for global g: a new one each time
NewObject(g) == loads[g] + 1

\* where a thread goes when load_models returns
AfterLoad(t) == IF ld[t].entry = "load_models" THEN "returned" ELSE "getter_return"

\* a thread is in the section of load_models that _load_lock guards
InLoadingSection(t) ==
    ld[t].pc \in {"check2", "load_llm_tokenizer", "load_llm", "load_embed_tokenizer",
                  "load_embed_model", "release"}

\* load_models() is entered, or a getter is entered and tests its global:
\* if _x is None: load_models()
LdCall(t) ==
    /\ ld[t].pc = "idle"
    /\ \E entry \in LoaderEntries :
          ld' = [ld EXCEPT ![t] =
                    [LdLocals0 EXCEPT !.entry = entry,
                                      !.pc = IF entry = "load_models" THEN "check1_llm"
                                             ELSE IF Singleton(GetterOf(entry)) = NoObject
                                             THEN "check1_llm"
                                             ELSE "getter_return"]]
    /\ UNCHANGED <<corpusVars, ck, memVars, _llm, _llm_tokenizer, _embed_model,
                   _embed_tokenizer, _load_lock, loads>>

\* if _llm is not None and ...: the first operand, outside the lock
LdCheck1Llm(t) ==
    /\ ld[t].pc = "check1_llm"
    /\ ld' = [ld EXCEPT ![t].pc = IF _llm # NoObject THEN "check1_embed" ELSE "acquire"]
    /\ UNCHANGED <<corpusVars, ck, memVars, _llm, _llm_tokenizer, _embed_model,
                   _embed_tokenizer, _load_lock, loads>>

\* ... and _embed_model is not None: return
LdCheck1Embed(t) ==
    /\ ld[t].pc = "check1_embed"
    /\ ld' = [ld EXCEPT ![t].pc = IF _embed_model # NoObject THEN AfterLoad(t) ELSE "acquire"]
    /\ UNCHANGED <<corpusVars, ck, memVars, _llm, _llm_tokenizer, _embed_model,
                   _embed_tokenizer, _load_lock, loads>>

\* with _load_lock: the lock is taken when it is free
LdAcquire(t) ==
    /\ ld[t].pc = "acquire"
    /\ _load_lock = NoThread
    /\ _load_lock' = t
    /\ ld' = [ld EXCEPT ![t].pc = "check2"]
    /\ UNCHANGED <<corpusVars, ck, memVars, _llm, _llm_tokenizer, _embed_model,
                   _embed_tokenizer, loads>>

\* LdCheck2 with the test under the lock left out
LdCheck2_NoRecheck(t) ==
    /\ ld[t].pc = "check2"
    /\ ld' = [ld EXCEPT ![t].pc = "load_llm_tokenizer"]
    /\ UNCHANGED <<corpusVars, ck, memVars, _llm, _llm_tokenizer, _embed_model,
                   _embed_tokenizer, _load_lock, loads>>

\* under the lock: if _llm is not None and _embed_model is not None: return
\* (leaving the with block releases the lock)
LdCheck2(t) ==
    /\ ld[t].pc = "check2"
    /\ ld' = [ld EXCEPT ![t].pc = IF _llm # NoObject /\ _embed_model # NoObject
                                  THEN "release" ELSE "load_llm_tokenizer"]
    /\ UNCHANGED <<corpusVars, ck, memVars, _llm, _llm_tokenizer, _embed_model,
                   _embed_tokenizer, _load_lock, loads>>

\* _llm_tokenizer = AutoTokenizer.from_pretrained(LLM_MODEL_NAME)
LdLoadLlmTokenizer(t) ==
    /\ ld[t].pc = "load_llm_tokenizer"
    /\ _llm_tokenizer' = NewObject("_llm_tokenizer")
    /\ loads' = [loads EXCEPT !["_llm_tokenizer"] = @ + 1]
    /\ ld' = [ld EXCEPT ![t].pc = "load_llm"]
    /\ UNCHANGED <<corpusVars, ck, memVars, _llm, _embed_model, _embed_tokenizer, _load_lock>>

\* _llm = AutoModelForCausalLM.from_pretrained(...).to(device); _llm.eval()
LdLoadLlm(t) ==
    /\ ld[t].pc = "load_llm"
    /\ _llm' = NewObject("_llm")
    /\ loads' = [loads EXCEPT !["_llm"] = @ + 1]
    /\ ld' = [ld EXCEPT ![t].pc = "load_embed_tokenizer"]
    /\ UNCHANGED <<corpusVars, ck, memVars, _llm_tokenizer, _embed_model, _embed_tokenizer,
                   _load_lock>>

\* _embed_tokenizer = AutoTokenizer.from_pretrained(EMBED_MODEL_NAME)
LdLoadEmbedTokenizer(t) ==
    /\ ld[t].pc = "load_embed_tokenizer"
    /\ _embed_tokenizer' = NewObject("_embed_tokenizer")
    /\ loads' = [loads EXCEPT !["_embed_tokenizer"] = @ + 1]
    /\ ld' = [ld EXCEPT ![t].pc = "load_embed_model"]
    /\ UNCHANGED <<corpusVars, ck, memVars, _llm, _llm_tokenizer, _embed_model, _load_lock>>

\* _embed_model = AutoModel.from_pretrained(...).to(device); _embed_model.eval()
LdLoadEmbedModel(t) ==
    /\ ld[t].pc = "load_embed_model"
    /\ _embed_model' = NewObject("_embed_model")
    /\ loads' = [loads EXCEPT !["_embed_model"] = @ + 1]
    /\ ld' = [ld EXCEPT ![t].pc = "release"]
    /\ UNCHANGED <<corpusVars, ck, memVars, _llm, _llm_tokenizer, _embed_tokenizer,
                   _load_lock>>

\* the with block is left and load_models returns
LdRelease(t) ==
    /\ ld[t].pc = "release"
    /\ _load_lock' = NoThread
    /\ ld' = [ld EXCEPT ![t].pc = AfterLoad(t)]
    /\ UNCHANGED <<corpusVars, ck, memVars, _llm, _llm_tokenizer, _embed_model,
                   _embed_tokenizer, loads>>

\* a getter's return _x
LdGetterReturn(t) ==
    /\ ld[t].pc = "getter_return"
    /\ ld' = [ld EXCEPT ![t].pc = "returned", ![t].ret = Singleton(GetterOf(ld[t].entry))]
    /\ UNCHANGED <<corpusVars, ck, memVars, _llm, _llm_tokenizer, _embed_model,
                   _embed_tokenizer, _load_lock, loads>>

LdStep(t) ==
    \/ LdCall(t)
    \/ LdCheck1Llm(t)
    \/ LdCheck1Embed(t)
    \/ LdAcquire(t)
    \/ LdCheck2(t)
    \/ LdLoadLlmTokenizer(t)
    \/ LdLoadLlm(t)
    \/ LdLoadEmbedTokenizer(t)
    \/ LdLoadEmbedModel(t)
    \/ LdRelease(t)
    \/ LdGetterReturn(t)

\* Threads call load_models and the getters concurrently; loading does not
\* fail.
LoaderNext == \E t \in LoaderThreads : LdStep(t)

LoaderSpec == Init /\ [][LoaderNext]_vars

\* ------------------------------------------ memory_handler, called directly
\* add_message(session_id, role, content) is called
ApiAddMessageWith(session_id, role, content) ==
    /\ _conversations' = add_message(_conversations, session_id, role, content, "api")
    /\ api' = [api EXCEPT !.op = "add_message", !.wrote = @ \cup {session_id}]
    /\ UNCHANGED <<corpusVars, ck, chat, loaderVars>>

ApiAddMessage ==
    \E session_id \in SessionIds, role \in Roles, content \in Contents :
        /\ ApiAddMessageWith(session_id, role, content)
        /\ \A k \in DOMAIN _conversations' : Len(_conversations'[k]) <= MaxMessages

\* history = get_history(session_id): the caller holds the returned list
ApiGetHistoryWith(session_id) ==
    /\ api' = [api EXCEPT !.op = "get_history",
                          !.got = get_history(_conversations, session_id)]
    /\ UNCHANGED <<corpusVars, ck, _conversations, chat, loaderVars>>

ApiGetHistory == \E session_id \in SessionIds : ApiGetHistoryWith(session_id)

\* The caller changes the list it holds: history.append(...) or
\* history.clear().  A list that is the dict's own list changes there too.
ApiMutateReturned ==
    /\ api.got.held
    /\ \E change \in {"append", "clear"} :
          LET items == IF change = "clear" THEN <<>>
                       ELSE Append(api.got.items,
                                   [role |-> "user", content |-> <<"x">>, turn |-> "caller"])
          IN  /\ Len(items) <= MaxMessages
              /\ items # api.got.items
              /\ api' = [api EXCEPT !.op = "mutate", !.got.items = items]
              /\ _conversations' = IF api.got.shared
                                   THEN Put(_conversations, api.got.key, items)
                                   ELSE _conversations
    /\ UNCHANGED <<corpusVars, ck, chat, loaderVars>>

\* clear_history(session_id) is called; a list the caller holds is no
\* longer the dict's
ApiClearHistoryWith(session_id) ==
    /\ _conversations' = clear_history(_conversations, session_id)
    /\ api' = [api EXCEPT !.op = "clear_history",
                          !.got.shared = @ /\ api.got.key # session_id]
    /\ UNCHANGED <<corpusVars, ck, chat, loaderVars>>

ApiClearHistory == \E session_id \in SessionIds : ApiClearHistoryWith(session_id)

\* The functions of memory_handler called one after another.
MemApiNext ==
    \/ ApiAddMessage
    \/ ApiGetHistory
    \/ ApiMutateReturned
    \/ ApiClearHistory

MemApiSpec == Init /\ [][MemApiNext]_vars

\* ----------------------------------------------------------------- claims
\* the three parallel structures have one length
Aligned == Len(_chunks) = Len(_metadata) /\ Len(_metadata) = NTotal(_index)

NoCallRunning == \A t \in Threads : ~Busy(t)

\* thread t's call ends in this step (it may also begin in it)
Finishes(t) == pc[t] # pc'[t] /\ pc'[t] \in {"returned", "raised"}

\* C1: with the calls run one after another (succeeding, doing nothing or
\* failing), whenever no call is running corpus_size() = len(_chunks) =
\* len(_metadata) = the number of vectors in the index (0 without an index).
C1_AlignedAfterEachCall ==
    NoCallRunning =>
        /\ corpus_size = Len(_chunks)
        /\ Aligned
        /\ (~_index.exists => corpus_size = 0)

\* two inserts have returned, one of one chunk and one of two, and a third
\* of the structures agrees
C1_Witness ==
    /\ \A t \in Writers : pc[t] = "returned"
    /\ {w[t].ret : t \in Writers} = {1, 2}
    /\ corpus_size = 3
    /\ NTotal(_index) = 3

\* C2: a reader never observes a torn triple: whenever a query is at its
\* search or in its result loop, the index's vector count, len(_chunks) and
\* len(_metadata) agree.
C2_ReadersSeeWholeTriple ==
    \A r \in Readers : pc[r] \in {"search", "loop"} => Aligned

\* C3: an insert whose batch has another dimension than the existing index
\* fails and leaves _chunks, _metadata and the index (contents and
\* dimension) as they were when it was called; all vectors in the index
\* have the index's dimension, and the dimension of an existing index never
\* changes.
C3_MismatchRejected ==
    [][ /\ \A t \in Writers :
              (Finishes(t) /\ w'[t].dim # 0 /\ _index.exists /\ w'[t].dim # _index.d)
                  => /\ pc'[t] = "raised"
                     /\ w'[t].err = "DimensionMismatch"
                     /\ Snapshot' = w'[t].pre
        /\ \A i \in 1..NTotal(_index') : Len(_index'.vecs[i]) = _index'.d
        /\ (_index.exists => _index'.exists /\ _index'.d = _index.d)
      ]_vars

\* an insert was refused for its dimension by an index that holds vectors
C3_Witness ==
    \E t \in Writers :
        /\ pc[t] = "raised"
        /\ w[t].err = "DimensionMismatch"
        /\ NTotal(_index) >= 1
        /\ w[t].dim # _index.d
        /\ Snapshot = w[t].pre

\* C4: an insert that fails at text extraction or at the embedding call
\* leaves _chunks, _metadata and the index (whether it exists included) as
\* they were when it was called.
C4_FailedInsertCommitsNothing ==
    [][ \A t \in Writers :
            (Finishes(t) /\ w'[t].err \in {"LoadFailed", "EmbedError"})
                => /\ Snapshot' = w'[t].pre
                   /\ Snapshot' = Snapshot
      ]_vars

\* after a successful insert, another insert failed at the embedding call
C4_Witness ==
    /\ pc["w1"] = "returned" /\ w["w1"].ret >= 1
    /\ pc["w2"] = "raised" /\ w["w2"].err = "EmbedError"
    /\ Snapshot = w["w2"].pre
    /\ corpus_size >= 1

\* C5: the chunker terminates for every text and every (max_chars,
\* overlap): each window starts strictly after the one before it, so the
\* loop takes no more windows than the text has characters.
C5_ChunkerTerminates ==
    /\ \A k \in 1..(Len(ck.st.windows) - 1) : ck.st.windows[k + 1][1] > ck.st.windows[k][1]
    /\ Len(ck.st.windows) <= Len(ck.text)

\* C6: run with no insert beside it on a corpus of n >= 1 chunks, a query
\* with top_k >= 1 returns exactly min(top_k, n) results, no position
\* twice, and fails only if the embedding provider fails.
C6_TopKClamped ==
    [][ \A r \in Readers :
            (Finishes(r) /\ _index.exists /\ corpus_size >= 1 /\ q'[r].err # "EmbedError")
                => /\ pc'[r] = "returned"
                   /\ Len(q'[r].results) = Min2(q'[r].top_k, corpus_size)
                   /\ \A i, j \in 1..Len(q'[r].results) :
                          i # j => q'[r].results[i].pos # q'[r].results[j].pos
      ]_vars

\* a query asked for more chunks than the corpus holds and got them all
C6_Witness ==
    \E r \in Readers :
        /\ pc[r] = "returned"
        /\ q[r].top_k > corpus_size
        /\ corpus_size >= 2
        /\ Len(q[r].results) = corpus_size

\* C7: a query on a corpus of zero chunks returns an empty list, raises
\* nothing and does not call the embedding provider.
C7_EmptyCorpusQuery ==
    [][ \A r \in Readers :
            (pc[r] = "idle" /\ pc'[r] # "idle" /\ corpus_size = 0)
                => /\ pc'[r] = "returned"
                   /\ q'[r].results = <<>>
                   /\ q'[r].err = ""
                   /\ q'[r].batches = <<>>
      ]_vars

\* a query returned empty-handed, without a provider call, after an insert
\* that failed
C7_Witness ==
    /\ pc["r1"] = "returned"
    /\ q["r1"].results = <<>>
    /\ q["r1"].batches = <<>>
    /\ pc["w1"] = "raised"
    /\ corpus_size = 0

\* C8: the results of a query are in non-decreasing score order, and
\* results of equal score are in ascending position order.
C8_ResultsOrdered ==
    \A r \in Readers :
        \A i, j \in 1..Len(q[r].results) :
            i < j => \/ q[r].results[i].score < q[r].results[j].score
                     \/ /\ q[r].results[i].score = q[r].results[j].score
                        /\ q[r].results[i].pos < q[r].results[j].pos

\* a query returned two results of equal score and one of another
C8_Witness ==
    \E r \in Readers :
        /\ pc[r] = "returned"
        /\ Len(q[r].results) = 3
        /\ \E i \in 1..2 : q[r].results[i].score = q[r].results[i + 1].score
        /\ q[r].results[1].score < q[r].results[3].score

\* C9: a query beside an insert never faults with an out-of-bounds access,
\* and every result it holds carries the text of the chunk at its position
\* and the source label of the call that stored that chunk.
C9_QueryNeverFaults ==
    \A r \in Readers :
        /\ ~(pc[r] = "raised" /\ q[r].err = "IndexError")
        /\ \A i \in 1..Len(q[r].results) :
               LET res == q[r].results[i]
               IN  /\ res.text = _chunks[res.pos + 1]
                   /\ res.source = origin[res.pos + 1]

\* C10: once all concurrent inserts have completed, for every position i
\* the vector at index position i is the embedding of _chunks[i] and
\* _metadata[i] is the source label of the call that stored _chunks[i].
C10_PositionsAligned ==
    (\A t \in Writers : ~Busy(t)) =>
        \A i \in 1..Len(_chunks) :
            /\ i <= NTotal(_index)
            /\ _index.vecs[i] = EmbedVec(_chunks[i], _index.d)
            /\ i <= Len(_metadata)
            /\ _metadata[i].source = origin[i]

\* C11: an insert of empty or whitespace-only text, or of text the chunker
\* makes no chunk of, returns 0 without raising, does not call the
\* embedding provider (whether it would fail or not), does not create the
\* index, and leaves corpus_size() and the whole corpus as they were.
C11_EmptyInsertIsNoOp ==
    [][ \A t \in Writers, text \in Docs, source_name \in Sources, embedOk \in BOOLEAN :
            ( /\ pc[t] = "idle"
              /\ StripsToEmpty[text] \/ DefaultChunks[text] = <<>>
              /\ WBeginWith(t, "text", "ok", text, source_name, embedOk) )
                => /\ pc'[t] = "returned"
                   /\ w'[t].ret = 0
                   /\ w'[t].err = ""
                   /\ w'[t].batches = <<>>
                   /\ _index' = _index
                   /\ corpus_size' = corpus_size
                   /\ Snapshot' = Snapshot
      ]_vars

\* an insert that did nothing has returned 0, with no provider call, and no
\* index has been created; the next insert then stored its chunks
C11_Witness ==
    /\ pc["w1"] = "returned"
    /\ w["w1"].ret = 0 /\ w["w1"].err = "" /\ w["w1"].batches = <<>>
    /\ w["w1"].pre.index = NoIndex
    /\ w["w2"].pre.index = NoIndex
    /\ pc["w2"] = "returned" /\ w["w2"].ret = 2
    /\ corpus_size = 2

\* C12: when text extraction fails (the loader raises on an unreadable or
\* corrupt file, or OCR fails), add_document_from_file returns 0, raises
\* nothing, calls no provider, and leaves the corpus as it was.
C12_ExtractionFailureIsNoOp ==
    [][ \A t \in Writers, outcome \in {"ocr_failed", "raise"}, text \in Docs,
           source_name \in Sources, embedOk \in BOOLEAN :
            ( /\ pc[t] = "idle"
              /\ WBeginWith(t, "file", outcome, text, source_name, embedOk) )
                => /\ pc'[t] = "returned"
                   /\ w'[t].ret = 0
                   /\ w'[t].batches = <<>>
                   /\ (outcome = "raise" <=> w'[t].err = "LoadFailed")
                   /\ Snapshot' = Snapshot
      ]_vars

\* after an insert that stored chunks, the loader raised in another insert,
\* which returned 0 and left the corpus as it found it
C12_Witness ==
    /\ pc["w1"] = "returned" /\ w["w1"].ret >= 1
    /\ pc["w2"] = "returned" /\ w["w2"].ret = 0 /\ w["w2"].err = "LoadFailed"
    /\ Snapshot = w["w2"].pre
    /\ corpus_size = w["w1"].ret

\* C13: the corpus is append-only: in every step of any interleaving of
\* inserts and queries corpus_size() does not decrease, and every position
\* that holds a chunk text or a source label keeps it (a position is never
\* given to another chunk).
C13_AppendOnly ==
    [][ /\ corpus_size' >= corpus_size
        /\ Len(_metadata') >= Len(_metadata)
        /\ \A i \in 1..Len(_chunks) : _chunks'[i] = _chunks[i]
        /\ \A i \in 1..Len(_metadata) : _metadata'[i] = _metadata[i]
      ]_vars

\* two inserts with different labels have stored three chunks between
\* them and a query has read the corpus
C13_Witness ==
    /\ \A t \in Writers : pc[t] = "returned"
    /\ corpus_size = 3 /\ Len(_metadata) = 3
    /\ _metadata[1].source # _metadata[3].source
    /\ pc["r1"] = "returned" /\ Len(q["r1"].results) >= 1

RECURSIVE SumOf(_, _)
SumOf(f, S) ==
    IF S = {} THEN 0
    ELSE LET x == CHOOSE y \in S : TRUE IN f[x] + SumOf(f, S \ {x})

\* C14: with the calls run one after another, the integer an insert returns
\* is the number of chunks it committed: corpus_size() when it returns
\* minus corpus_size() when it was called, which is also the number of
\* chunks the chunker made of its text; and whenever no call is running
\* corpus_size() is the sum of the values returned by the inserts so far.
C14_ReturnCountsCommitted ==
    [][ /\ \A t \in Writers :
              (Finishes(t) /\ pc'[t] = "returned")
                  => /\ w'[t].ret = corpus_size' - Len(w'[t].pre.chunks)
                     /\ w'[t].ret = Len(w'[t].chunks)
        /\ (\A t \in Threads : ~Busy(t)')
              => corpus_size' = SumOf([t \in Writers |->
                                          IF pc'[t] = "returned" THEN w'[t].ret ELSE 0],
                                      Writers)
      ]_vars

\* an insert returned 2 and, on the corpus of two chunks it left, a later
\* insert returned 1
C14_Witness ==
    /\ pc["w1"] = "returned" /\ w["w1"].ret = 2
    /\ pc["w2"] = "returned" /\ w["w2"].ret = 1
    /\ Len(w["w2"].pre.chunks) = 2
    /\ corpus_size = 3

\* the trimmed text of window k of the chunker run
WindowChunk(k) == Strip(Slice(ck.text, ck.st.windows[k][1], ck.st.windows[k][2]))

\* C15: for max_chars >= 1, when the chunker returns (and at every point of
\* its loop before), every chunk has between 1 and max_chars characters and
\* neither begins nor ends with whitespace, and the chunks are exactly the
\* trimmed windows that are not empty, in window order: a window that
\* trims to empty gives no chunk.
C15_ChunksBoundedNonEmpty ==
    ck.pc \in {"loop", "done"} =>
        /\ \A i \in 1..Len(ck.st.chunks) :
               LET chunk == ck.st.chunks[i]
               IN  /\ Len(chunk) >= 1
                   /\ Len(chunk) <= ck.max_chars
                   /\ Strip(chunk) = chunk
        /\ ck.st.chunks =
               SelectSeq([k \in 1..Len(ck.st.windows) |-> WindowChunk(k)],
                         LAMBDA c : c # <<>>)

\* the chunker has returned two chunks, one of them max_chars long, and
\* dropped a window that trimmed to empty
C15_Witness ==
    /\ ck.pc = "done"
    /\ Len(ck.st.chunks) = 2
    /\ Len(ck.st.windows) = 3
    /\ \E k \in 1..3 : WindowChunk(k) = <<>>
    /\ \E i \in 1..2 : Len(ck.st.chunks[i]) = ck.max_chars

\* C16: the windows follow the sliding rule: the first starts at 0, each
\* ends at min(start + max_chars, length), and window k+1 starts at
\* max(0, end of window k - overlap); a text of 1000 characters chunked
\* with max_chars 800 and overlap 200 gives exactly the windows [0,800)
\* and [600,1000).
C16_SlidingRule ==
    LET win == ck.st.windows
    IN  /\ Len(win) >= 1 => win[1][1] = 0
        /\ \A k \in 1..Len(win) :
               win[k][2] = Min2(win[k][1] + ck.max_chars, Len(ck.text))
        /\ \A k \in 1..(Len(win) - 1) :
               win[k + 1][1] = Max2(0, win[k][2] - ck.overlap)
        /\ (ck.pc = "done" /\ Len(ck.text) = 1000
                /\ ck.max_chars = 800 /\ ck.overlap = 200)
              => win = << <<0, 800>>, <<600, 1000>> >>

\* the chunker has returned from the text of 1000 characters with the
\* windows [0,800) and [600,1000) and chunks of 800 and 400 characters
C16_Witness ==
    /\ ck.pc = "done"
    /\ ck.text = Rep("A", 1000)
    /\ ck.max_chars = 800 /\ ck.overlap = 200
    /\ ck.st.windows = << <<0, 800>>, <<600, 1000>> >>
    /\ Len(ck.st.chunks) = 2
    /\ Len(ck.st.chunks[1]) = 800 /\ Len(ck.st.chunks[2]) = 400

\* the positions (counted from 1) of the non-whitespace characters of
\* window k of the chunker run
WindowInk(k) ==
    {p \in (ck.st.windows[k][1] + 1)..ck.st.windows[k][2] : ck.text[p] \notin Whitespace}

\* C17: when the chunker returns from a run with 0 <= overlap < max_chars,
\* every character position of the normalized text lies in some window,
\* and every window that has a non-whitespace character gave a chunk that
\* spans the text from its first to its last such character: so every
\* non-whitespace character of the text is in a returned chunk.
C17_WindowsCoverText ==
    (ck.pc = "done" /\ ck.overlap >= 0 /\ ck.overlap < ck.max_chars) =>
        /\ \A p \in 1..Len(ck.text) :
               \E k \in 1..Len(ck.st.windows) :
                   ck.st.windows[k][1] < p /\ p <= ck.st.windows[k][2]
        /\ \A k \in 1..Len(ck.st.windows) :
               LET ink == WindowInk(k)
               IN  ink # {} =>
                       LET first == CHOOSE p \in ink : \A o \in ink : p <= o
                           last == CHOOSE p \in ink : \A o \in ink : o <= p
                       IN  \E i \in 1..Len(ck.st.chunks) :
                               ck.st.chunks[i] = SubSeq(ck.text, first, last)

\* the chunker has returned from a text of three characters, whitespace in
\* the middle, with two overlapping windows and two chunks
C17_Witness ==
    /\ ck.pc = "done"
    /\ ck.overlap >= 1 /\ ck.overlap < ck.max_chars
    /\ Len(ck.text) = 3
    /\ ck.text[2] \in Whitespace
    /\ ck.st.windows = << <<0, 2>>, <<1, 3>> >>
    /\ Len(ck.st.chunks) = 2

\* C18: an insert that reaches the embedding step calls the provider
\* exactly once, with all its chunks in chunk order: the batch is the
\* chunk list, no later step of the call adds a batch, and what the call
\* commits is that batch and its rows, in that order.  A query on a
\* non-empty corpus calls the provider exactly once with a batch of one
\* text, whose row is the vector searched for.
C18_OneProviderCallPerOperation ==
    [][ /\ \A t \in Writers :
              /\ (pc[t] = "idle" /\ pc'[t] # "idle" /\ w'[t].chunks # <<>>)
                    => w'[t].batches = <<w'[t].chunks>>
              /\ pc[t] # "idle" => w'[t].batches = w[t].batches
              /\ (Finishes(t) /\ pc'[t] = "returned" /\ w'[t].chunks # <<>>)
                    => LET n0 == Len(w'[t].pre.chunks)
                       IN  /\ Len(w'[t].batches) = 1
                           /\ SubSeq(_chunks', n0 + 1, Len(_chunks')) = w'[t].batches[1]
                           /\ SubSeq(_index'.vecs, n0 + 1, NTotal(_index'))
                                  = embed_texts(w'[t].batches[1], _index'.d)
        /\ \A r \in Readers :
              /\ (pc[r] = "idle" /\ pc'[r] # "idle" /\ corpus_size >= 1)
                    => /\ Len(q'[r].batches) = 1
                       /\ Len(q'[r].batches[1]) = 1
                       /\ pc'[r] = "search"
                              => q'[r].query_vec = EmbedVec(q'[r].batches[1][1], embedDim)
              /\ pc[r] # "idle" => q'[r].batches = q[r].batches
      ]_vars

\* an insert of two chunks has returned after one provider call with both
\* chunks, and a query has returned results after one call with one text
C18_Witness ==
    /\ pc["w1"] = "returned" /\ w["w1"].ret = 2
    /\ Len(w["w1"].batches) = 1 /\ Len(w["w1"].batches[1]) = 2
    /\ pc["r1"] = "returned" /\ Len(q["r1"].results) >= 1
    /\ Len(q["r1"].batches) = 1 /\ Len(q["r1"].batches[1]) = 1

\* C19: after sequential inserts (of one or several documents, under
\* their labels) whose chunks have pairwise distinct embeddings, a query
\* with top_k = 1 whose vector equals the embedding stored at position j
\* returns exactly one result: the chunk text at position j, the label
\* given to the insert that stored it, and score 0.
C19_ExactMatchWins ==
    [][ \A r \in Readers :
            ( /\ Finishes(r)
              /\ pc'[r] = "returned"
              /\ q'[r].top_k = 1
              /\ \A a, b \in 1..NTotal(_index) :
                     a # b => _index.vecs[a] # _index.vecs[b] )
                => \A j \in 1..NTotal(_index) :
                       _index.vecs[j] = q'[r].query_vec
                           => /\ Len(q'[r].results) = 1
                              /\ q'[r].results[1].text = _chunks[j]
                              /\ q'[r].results[1].source = origin[j]
                              /\ q'[r].results[1].score = 0
                              /\ q'[r].results[1].pos = j - 1
      ]_vars

\* on three chunks of distinct embeddings stored by two inserts under
\* different labels, a query for one nearest chunk returned the last
\* chunk, at distance 0, with the second insert's label
C19_Witness ==
    /\ \A t \in Writers : pc[t] = "returned"
    /\ corpus_size = 3
    /\ \A a, b \in 1..3 : a # b => _index.vecs[a] # _index.vecs[b]
    /\ w["w1"].source # w["w2"].source
    /\ pc["r1"] = "returned"
    /\ q["r1"].top_k = 1
    /\ q["r1"].query_vec = _index.vecs[3]
    /\ q["r1"].results = <<[text |-> _chunks[3], score |-> 0,
                            source |-> w["w2"].source, pos |-> 2]>>

\* the inserts between their first and last statement
InsertsInProgress == {t \in Writers : Busy(t)}

\* C20: in every reachable state of every interleaving of inserts and
\* queries, len(_metadata) <= len(_chunks) <= the number of vectors in the
\* index, and len(_chunks) - len(_metadata) is at most the number of
\* inserts in progress.
C20_LengthsOrdered ==
    /\ Len(_metadata) <= Len(_chunks)
    /\ Len(_chunks) <= NTotal(_index)
    /\ Len(_chunks) - Len(_metadata) <= Cardinality(InsertsInProgress)

\* C21: under any interleaving of chat_stream requests, every session's
\* stored history alternates strictly, user then assistant, from a user
\* message on, each assistant message directly after the user message of
\* its own turn (a last user message may still wait for its answer while
\* its request is between the two add_message calls); and a turn is stored
\* only by a request whose stream was exhausted with an answer that is not
\* empty after stripping.
C21_HistoryAlternates ==
    \A s \in DOMAIN _conversations :
        LET h == _conversations[s]
        IN  \A i \in 1..Len(h) :
                /\ h[i].role = (IF i % 2 = 1 THEN "user" ELSE "assistant")
                /\ i % 2 = 0 => h[i].turn = h[i - 1].turn
                /\ chat[h[i].turn].pc \in {"add_assistant", "done"}
                /\ chat[h[i].turn].full_answer # <<>>
                /\ chat[h[i].turn].session_id = s

\* C22: under any interleaving of calls of load_models and the four
\* getters, with loading never failing, each of the four globals is
\* assigned at most once, at most one thread is in the section the lock
\* guards, no global that holds an object changes, and a getter that has
\* returned an object returned the one its global holds from then on.
C22_LoadedOnce ==
    [][ /\ \A g \in Singletons : loads'[g] <= 1
        /\ Cardinality({t \in LoaderThreads : InLoadingSection(t)'}) <= 1
        /\ \A g \in Singletons : Singleton(g) # NoObject => Singleton(g)' = Singleton(g)
        /\ \A t \in LoaderThreads :
               (ld'[t].pc = "returned" /\ ld'[t].ret # NoObject)
                   => \A g \in Singletons :
                          g = GetterOf(ld'[t].entry) => ld'[t].ret = Singleton(g)'
      ]_vars

\* two calls of load_models and a call of get_embed_model have returned,
\* the four objects have been loaded once each, and the getter returned
\* the embedding model the global holds
C22_Witness ==
    /\ \A t \in LoaderThreads : ld[t].pc = "returned"
    /\ ld["l1"].entry = "load_models"
    /\ ld["l2"].entry = "load_models"
    /\ ld["l3"].entry = "get_embed_model"
    /\ ld["l3"].ret = _embed_model
    /\ \A g \in Singletons : loads[g] = 1 /\ Singleton(g) # NoObject

\* what get_history(s) gives on the dict conv
Hist(conv, s) == get_history(conv, s).items

\* C23: session memory calls touch only the session addressed, and the
\* empty id is read as "default" only on write: add_message("", r, c)
\* makes get_history("default") end with that message while
\* get_history("") stays empty; add_message on s appends to the session it
\* addresses and clear_history on s empties s, both leaving every other
\* session's history as it was; and changing the list get_history
\* returned leaves the stored histories as they were.
C23_SessionFrame ==
    [][ /\ \A role \in Roles, content \in Contents :
              ApiAddMessageWith("", role, content)
                  => LET h == Hist(_conversations', "default")
                     IN  /\ Len(h) = Len(Hist(_conversations, "default")) + 1
                         /\ h[Len(h)].role = role
                         /\ h[Len(h)].content = content
                         /\ Hist(_conversations', "") = <<>>
        /\ \A s \in SessionIds, role \in Roles, content \in Contents :
              ApiAddMessageWith(s, role, content)
                  => \A o \in SessionIds :
                         \/ Hist(_conversations', o) = Hist(_conversations, o)
                         \/ /\ o = (IF s = "" THEN "default" ELSE s)
                            /\ Len(Hist(_conversations', o)) = Len(Hist(_conversations, o)) + 1
                            /\ SubSeq(Hist(_conversations', o), 1, Len(Hist(_conversations, o)))
                                   = Hist(_conversations, o)
        /\ \A s \in SessionIds :
              ApiClearHistoryWith(s)
                  => /\ Hist(_conversations', s) = <<>>
                     /\ \A o \in SessionIds \ {s} :
                            Hist(_conversations', o) = Hist(_conversations, o)
        /\ ApiMutateReturned => _conversations' = _conversations
        /\ Hist(_conversations', "") = <<>>
      ]_vars

\* after add_message with the empty id and with "s1", the caller took the
\* history of "default", which holds the one message, and emptied its
\* list; nothing is stored under the empty id
C23_Witness ==
    /\ api.op = "mutate"
    /\ api.wrote = {"", "s1"}
    /\ api.got.key = "default"
    /\ api.got.items = <<>>
    /\ DOMAIN _conversations = {"default", "s1"}
    /\ Len(_conversations["default"]) = 1
    /\ Len(_conversations["s1"]) = 1

====
